---- MODULE Spec2Model ----
(***************************************************************************)
(* Multi-language label catalog: the bulk reconciliation engine            *)
(* (BulkLabelService.bulk_insert_labels) over the relational store of      *)
(* app/database_psycopg.py.  Every await on the session (select, commit,   *)
(* refresh) is one step of the calling request; requests of different      *)
(* sessions interleave at those steps.  A select returns the committed     *)
(* rows (READ COMMITTED).                                                  *)
(***************************************************************************)
EXTENDS Integers, Sequences, FiniteSets, TLC

\* ---------------------------------------------------------------- bounds
MaxBatch == 2        \* longest labels list of a request under Spec
MaxCalls == 2        \* calls of one client under Spec: the first and its repeats
MaxFaults == 1       \* unexpected storage errors the store may raise in a run

\* ---------------------------------------------------------------- inputs
Procs == {1, 2}                  \* request handlers, each with its own session
LanguageIds == {1, 3}            \* languages 1 and 2 exist, 3 does not
GroupIds == {1, 2, 3}            \* label groups 1 and 2 exist, 3 does not
Names == {"menu_home", "menu_about"}
Texts == {"Home", "Homepage"}
Items == [label_code_name : Names, label_text : Texts]

RECURSIVE SeqsUpTo(_, _)
SeqsUpTo(S, n) ==
    IF n = 0 THEN {<<>>}
    ELSE LET shorter == SeqsUpTo(S, n - 1)
         IN  shorter \cup {Append(s, x) : s \in {t \in shorter : Len(t) = n - 1}, x \in S}

\* labels: List[BulkLabelItem], min_items=1
Batches == {s \in SeqsUpTo(Items, MaxBatch) : Len(s) >= 1}
\* the batches two concurrent requests send under SpecConc
ConcBatches == {<<it>> : it \in Items}

BulkLabelRequest(langs, groups, batches) ==
    [language_id : langs, label_group_id : groups, labels : batches,
     allow_updates : BOOLEAN]

NoId == 0            \* None where the code holds an object or an id
NoText == ""         \* no label_text

VARIABLES
    languages,           \* table languages: the ids of its rows
    label_groups,        \* table label_groups: the ids of its rows
    label_codes,         \* table label_codes: rows [id, name, label_group_id]
    language_label,      \* table language_label: rows [id, language_id, label_id, label_text]
    code_seq,            \* next value of label_codes.id
    label_seq,           \* next value of language_label.id
    pc,                  \* per request: the await it is suspended at
    req,                 \* per request: bulk_request
    idx,                 \* per request: position of label_item in bulk_request.labels
    label_code,          \* per request: label_code.id of the current item
    existing_label_obj,  \* per request: existing_label_obj.id of the current item
    results,             \* per request: results
    counters,            \* per request: the four counters of the loop
    response,            \* per request: the BulkLabelResponse returned
    faults,              \* unexpected storage errors still to come
    calls,               \* per request handler: calls made so far
    log,                 \* history: per request, what happened to each item
    snap,                \* history: the tables when the call started
    prev,                \* history: request and response of the call repeated
    op,                  \* per request: the handler of the single-item API it runs
    cand,                \* per request: validation_request / label_data / the key in the path
    facts,               \* per request: the four facts validate_label_data has read
    verdict,             \* per request: validation_result
    label_obj,           \* per request: id of the language_label object its session holds
    outcome,             \* per request: what the handler returned to its caller
    created,             \* history: the language_label rows the call has written
    trail,               \* history: the phases the call has gone through
    active,              \* table languages: the ids of the rows with active = True
    children,            \* per request: the label codes its flush has loaded for a group
    database_available,  \* the global database_available of main_postgresql.py
    lifespan_at,         \* where the application's lifespan is: "startup" or "serving"
    reachable,           \* whether the database answers
    emails,              \* table emails: the addresses of its rows
    email_request        \* per request: email_request.email

store == <<languages, label_groups, label_codes, language_label, code_seq, label_seq>>
local == <<pc, req, idx, label_code, existing_label_obj, results, counters, response>>
hist  == <<faults, calls, log, snap, prev>>
single == <<op, cand, facts, verdict, label_obj, outcome, created, trail>>
admin == <<active, children>>
app   == <<database_available, lifespan_at, reachable, emails, email_request>>
extra == <<admin, app>>
vars  == <<store, local, hist, single, extra>>

\* ------------------------------------------------------------- the store
\* unique_name_per_group
CodeByNameAndGroup(name, group_id) ==
    {c \in label_codes : c.name = name /\ c.label_group_id = group_id}

\* unique_language_label
LabelByKey(language_id, label_id) ==
    {l \in language_label : l.language_id = language_id /\ l.label_id = label_id}

LabelById(id) == {l \in language_label : l.id = id}

ZeroCounters ==
    [successful_insertions |-> 0, successful_updates |-> 0,
     failed_insertions |-> 0, skipped_labels |-> 0]

NoRequest ==
    [language_id |-> NoId, label_group_id |-> NoId, labels |-> <<>>,
     allow_updates |-> FALSE]

NoResponse ==
    [success |-> FALSE, total_labels |-> 0, successful_insertions |-> 0,
     successful_updates |-> 0, failed_insertions |-> 0, skipped_labels |-> 0,
     results |-> <<>>, message |-> "none"]

NoLog == [fault |-> {}, missing |-> {}]

\* None where the code holds a LanguageLabel
NoRow == [id |-> NoId, language_id |-> NoId, label_id |-> NoId, label_text |-> NoText]

NoCandidate ==
    [language_id |-> NoId, label_group_id |-> NoId, label_code_id |-> NoId,
     label_text |-> NoText]

\* the locals language_exists, group_exists, code_exists, translation_exists
\* of validate_label_data before it has read anything
NoFacts ==
    [language_exists |-> FALSE, group_exists |-> FALSE, code_exists |-> FALSE,
     translation_exists |-> FALSE]

NoVerdict ==
    [valid |-> FALSE, language_exists |-> FALSE, label_group_exists |-> FALSE,
     label_code_exists |-> FALSE, message |-> "none"]

NoOutcome ==
    [step |-> "none", success |-> FALSE, message |-> "none", created_label |-> NoRow,
     verification_result |-> NoRow]

\* The catalog before the first request.  Group 2 holds the code menu_home,
\* translated into language 1; the code menu_home of group 1 is absent,
\* present without a translation, or translated into language 1.
InitialCatalogs ==
    LET other == [id |-> 1, name |-> "menu_home", label_group_id |-> 2]
        home == [id |-> 2, name |-> "menu_home", label_group_id |-> 1]
        other_text == [id |-> 1, language_id |-> 1, label_id |-> 1, label_text |-> "Home"]
    IN  {[codes |-> {other}, labels |-> {other_text}],
         [codes |-> {other, home}, labels |-> {other_text}]}
        \cup {[codes |-> {other, home},
               labels |-> {other_text,
                           [id |-> 2, language_id |-> 1, label_id |-> 2, label_text |-> t]}]
              : t \in Texts}

InitWith(budget) ==
    /\ languages = {1, 2}
    /\ label_groups = {1, 2}
    /\ \E cat \in InitialCatalogs :
          /\ label_codes = cat.codes
          /\ language_label = cat.labels
          /\ code_seq = Cardinality(cat.codes) + 1
          /\ label_seq = Cardinality(cat.labels) + 1
    /\ pc = [p \in Procs |-> "idle"]
    /\ req = [p \in Procs |-> NoRequest]
    /\ idx = [p \in Procs |-> 0]
    /\ label_code = [p \in Procs |-> NoId]
    /\ existing_label_obj = [p \in Procs |-> NoId]
    /\ results = [p \in Procs |-> <<>>]
    /\ counters = [p \in Procs |-> ZeroCounters]
    /\ response = [p \in Procs |-> NoResponse]
    /\ faults = budget
    /\ calls = [p \in Procs |-> 0]
    /\ log = [p \in Procs |-> NoLog]
    /\ snap = [p \in Procs |-> [codes |-> {}, labels |-> {}]]
    /\ prev = [p \in Procs |-> [req |-> NoRequest, response |-> NoResponse, log |-> NoLog]]
    /\ op = [p \in Procs |-> "none"]
    /\ cand = [p \in Procs |-> NoCandidate]
    /\ facts = [p \in Procs |-> NoFacts]
    /\ verdict = [p \in Procs |-> NoVerdict]
    /\ label_obj = [p \in Procs |-> NoId]
    /\ outcome = [p \in Procs |-> NoOutcome]
    /\ created = [p \in Procs |-> {}]
    /\ trail = [p \in Procs |-> <<>>]
    /\ active = languages
    /\ children = [p \in Procs |-> {}]
    /\ emails = {}
    /\ email_request = [p \in Procs |-> NoText]

\* the application after a startup that created its tables
Serving ==
    /\ lifespan_at = "serving"
    /\ reachable = TRUE
    /\ database_available = TRUE

Init == InitWith(MaxFaults) /\ Serving

\* ------------------------------------------------ bulk_insert_labels
label_item(p) == req[p].labels[idx[p]]

BulkLabelResult(item, success, label_id, action) ==
    [label_code_name |-> item.label_code_name, label_text |-> item.label_text,
     success |-> success, label_id |-> label_id, action |-> action]

\* the message's first sentence, by the branch that writes it
Message(cnt, n) ==
    LET total_successful == cnt.successful_insertions + cnt.successful_updates
        overall_success == cnt.failed_insertions = 0
    IN  IF overall_success /\ total_successful = n THEN "processed_all"
        ELSE IF total_successful > 0 THEN "partially_successful"
        ELSE "failed_to_process_any"

\* a response in which a skipped item counts against success
BulkLabelResponseStrict(r, rs, cnt) ==
    [success |-> cnt.failed_insertions = 0 /\ cnt.skipped_labels = 0,
     total_labels |-> Len(r.labels),
     successful_insertions |-> cnt.successful_insertions,
     successful_updates |-> cnt.successful_updates,
     failed_insertions |-> cnt.failed_insertions,
     skipped_labels |-> cnt.skipped_labels,
     results |-> rs,
     message |-> Message(cnt, Len(r.labels))]

BulkLabelResponse(r, rs, cnt) ==
    [success |-> cnt.failed_insertions = 0,
     total_labels |-> Len(r.labels),
     successful_insertions |-> cnt.successful_insertions,
     successful_updates |-> cnt.successful_updates,
     failed_insertions |-> cnt.failed_insertions,
     skipped_labels |-> cnt.skipped_labels,
     results |-> rs,
     message |-> Message(cnt, Len(r.labels))]

\* a rejection that counts no item as failed
RejectionCountingNothing(r, message) ==
    [success |-> FALSE,
     total_labels |-> Len(r.labels),
     successful_insertions |-> 0,
     successful_updates |-> 0,
     failed_insertions |-> 0,
     skipped_labels |-> 0,
     results |-> <<>>,
     message |-> message]

Rejection(r, message) ==
    [success |-> FALSE,
     total_labels |-> Len(r.labels),
     successful_insertions |-> 0,
     successful_updates |-> 0,
     failed_insertions |-> Len(r.labels),
     skipped_labels |-> 0,
     results |-> <<>>,
     message |-> message]

\* a request enters bulk_insert_labels
Enter(p, r) ==
    /\ pc' = [pc EXCEPT ![p] = "select_language"]
    /\ req' = [req EXCEPT ![p] = r]
    /\ idx' = [idx EXCEPT ![p] = 0]
    /\ label_code' = [label_code EXCEPT ![p] = NoId]
    /\ existing_label_obj' = [existing_label_obj EXCEPT ![p] = NoId]
    /\ results' = [results EXCEPT ![p] = <<>>]
    /\ counters' = [counters EXCEPT ![p] = ZeroCounters]
    /\ response' = [response EXCEPT ![p] = NoResponse]
    /\ calls' = [calls EXCEPT ![p] = @ + 1]
    /\ log' = [log EXCEPT ![p] = NoLog]
    /\ snap' = [snap EXCEPT ![p] = [codes |-> label_codes, labels |-> language_label]]
    /\ UNCHANGED <<extra, single, store, faults>>

StartBulk(p, langs, groups, batches) ==
    /\ pc[p] = "idle"
    /\ \E r \in BulkLabelRequest(langs, groups, batches) : Enter(p, r)
    /\ UNCHANGED prev

\* the client sends the request of its last call again
RepeatBulk(p) ==
    /\ pc[p] = "done"
    /\ calls[p] < MaxCalls
    /\ Enter(p, req[p])
    /\ prev' = [prev EXCEPT ![p] = [req |-> req[p], response |-> response[p], log |-> log[p]]]

\* return of a response
Return(p, resp) ==
    /\ pc' = [pc EXCEPT ![p] = "done"]
    /\ response' = [response EXCEPT ![p] = resp]

\* a loop that puts each result in front of the earlier ones
EndItemPrepending(p, result, cnt) ==
    LET rs == <<result>> \o results[p]
    IN  /\ results' = [results EXCEPT ![p] = rs]
        /\ counters' = [counters EXCEPT ![p] = cnt]
        /\ label_code' = [label_code EXCEPT ![p] = NoId]
        /\ existing_label_obj' = [existing_label_obj EXCEPT ![p] = NoId]
        /\ IF idx[p] < Len(req[p].labels)
             THEN /\ idx' = [idx EXCEPT ![p] = @ + 1]
                  /\ pc' = [pc EXCEPT ![p] = "select_code"]
                  /\ response' = response
             ELSE /\ idx' = idx
                  /\ Return(p, BulkLabelResponse(req[p], rs, cnt))

\* the end of one iteration of the loop: its result and counters are
\* recorded, and the loop goes on to the next label_item or the function
\* builds its response
EndItem(p, result, cnt) ==
    LET rs == Append(results[p], result)
    IN  /\ results' = [results EXCEPT ![p] = rs]
        /\ counters' = [counters EXCEPT ![p] = cnt]
        /\ label_code' = [label_code EXCEPT ![p] = NoId]
        /\ existing_label_obj' = [existing_label_obj EXCEPT ![p] = NoId]
        /\ IF idx[p] < Len(req[p].labels)
             THEN /\ idx' = [idx EXCEPT ![p] = @ + 1]
                  /\ pc' = [pc EXCEPT ![p] = "select_code"]
                  /\ response' = response
             ELSE /\ idx' = idx
                  /\ Return(p, BulkLabelResponse(req[p], rs, cnt))

\* a failure that ends the loop: the response is built from the items so far
FailedAbortsBatch(p) ==
    LET cnt == [counters[p] EXCEPT !.failed_insertions = @ + 1]
        rs == Append(results[p], BulkLabelResult(label_item(p), FALSE, NoId, "failed"))
    IN  /\ results' = [results EXCEPT ![p] = rs]
        /\ counters' = [counters EXCEPT ![p] = cnt]
        /\ label_code' = [label_code EXCEPT ![p] = NoId]
        /\ existing_label_obj' = [existing_label_obj EXCEPT ![p] = NoId]
        /\ idx' = idx
        /\ Return(p, BulkLabelResponse(req[p], rs, cnt))

\* except Exception as e: of the loop body
Failed(p) ==
    EndItem(p, BulkLabelResult(label_item(p), FALSE, NoId, "failed"),
            [counters[p] EXCEPT !.failed_insertions = @ + 1])

\* a failed update that is reported and not counted
FailedUpdateUncounted(p) ==
    EndItem(p, BulkLabelResult(label_item(p), FALSE, existing_label_obj[p], "failed_update"),
            counters[p])

\* except Exception as update_error: of the update
FailedUpdate(p) ==
    EndItem(p, BulkLabelResult(label_item(p), FALSE, existing_label_obj[p], "failed_update"),
            [counters[p] EXCEPT !.failed_insertions = @ + 1])

\* a skip counted with the failures
SkippedAsFailure(p, label_id) ==
    EndItem(p, BulkLabelResult(label_item(p), FALSE, label_id, "skipped"),
            [counters[p] EXCEPT !.failed_insertions = @ + 1])

Skipped(p, label_id) ==
    EndItem(p, BulkLabelResult(label_item(p), FALSE, label_id, "skipped"),
            [counters[p] EXCEPT !.skipped_labels = @ + 1])

\* an insertion that is reported and not counted
InsertedUncounted(p) ==
    EndItem(p, BulkLabelResult(label_item(p), TRUE, existing_label_obj[p], "inserted"),
            counters[p])

\* the result of a translation created
Inserted(p) ==
    EndItem(p, BulkLabelResult(label_item(p), TRUE, existing_label_obj[p], "inserted"),
            [counters[p] EXCEPT !.successful_insertions = @ + 1])

\* the store raises an error that is no IntegrityError
UnexpectedError(p, point) ==
    /\ faults > 0
    /\ faults' = faults - 1
    /\ log' = [log EXCEPT ![p].fault = @ \cup {[idx |-> idx[p], point |-> point]}]

SelectLanguage(p) ==
    /\ pc[p] = "select_language"
    /\ IF req[p].language_id \notin languages
         THEN /\ Return(p, Rejection(req[p], "language_does_not_exist"))
              /\ idx' = idx
         ELSE /\ pc' = [pc EXCEPT ![p] = "select_group"]
              /\ UNCHANGED <<response, idx>>
    /\ UNCHANGED <<extra, single, store, req, label_code, existing_label_obj, results, counters, hist>>

SelectGroup(p) ==
    /\ pc[p] = "select_group"
    /\ IF req[p].label_group_id \notin label_groups
         THEN /\ Return(p, Rejection(req[p], "label_group_does_not_exist"))
              /\ idx' = idx
         ELSE /\ pc' = [pc EXCEPT ![p] = "select_code"]
              /\ idx' = [idx EXCEPT ![p] = 1]
              /\ response' = response
    /\ UNCHANGED <<extra, single, store, req, label_code, existing_label_obj, results, counters, hist>>

\* LabelCodeService.get_label_code_by_name_and_group
SelectCode(p) ==
    /\ pc[p] = "select_code"
    /\ LET found == CodeByNameAndGroup(label_item(p).label_code_name, req[p].label_group_id)
       IN  IF found = {}
             THEN /\ pc' = [pc EXCEPT ![p] = "code_commit"]
                  /\ label_code' = label_code
                  /\ log' = [log EXCEPT ![p].missing = @ \cup {idx[p]}]
             ELSE /\ pc' = [pc EXCEPT ![p] = "select_existing"]
                  /\ label_code' = [label_code EXCEPT ![p] = (CHOOSE c \in found : TRUE).id]
                  /\ log' = log
    /\ UNCHANGED <<extra, single, store, req, idx, existing_label_obj, results, counters, response,
                   faults, calls, snap, prev>>

\* LabelCodeService.create_label_code: db.add(code); await db.commit()
CodeCommit(p) ==
    /\ pc[p] = "code_commit"
    /\ LET name == label_item(p).label_code_name
           group_id == req[p].label_group_id
       IN  \/ /\ CodeByNameAndGroup(name, group_id) = {}
              /\ group_id \in label_groups
              /\ label_codes' = label_codes \cup
                    {[id |-> code_seq, name |-> name, label_group_id |-> group_id]}
              /\ code_seq' = code_seq + 1
              /\ label_code' = [label_code EXCEPT ![p] = code_seq]
              /\ pc' = [pc EXCEPT ![p] = "code_refresh"]
              /\ UNCHANGED <<languages, label_groups, language_label, label_seq, idx,
                             existing_label_obj, results, counters, response, faults, log>>
           \/ \* IntegrityError: rollback, ValueError
              /\ \/ CodeByNameAndGroup(name, group_id) # {}
                 \/ group_id \notin label_groups
              /\ Failed(p)
              /\ UNCHANGED <<store, faults, log>>
           \/ /\ UnexpectedError(p, "code_commit")
              /\ Failed(p)
              /\ UNCHANGED store
    /\ UNCHANGED <<extra, single, req, calls, snap, prev>>

\* LabelCodeService.create_label_code: await db.refresh(code)
CodeRefresh(p) ==
    /\ pc[p] = "code_refresh"
    /\ \/ /\ pc' = [pc EXCEPT ![p] = "select_existing"]
          /\ UNCHANGED <<idx, label_code, existing_label_obj, results, counters, response,
                         faults, log>>
       \/ /\ UnexpectedError(p, "code_refresh")
          /\ Failed(p)
    /\ UNCHANGED <<extra, single, store, req, calls, snap, prev>>

\* a table that never updates
DecideNeverUpdates(found, allow_updates, label_text) ==
    IF found = {} THEN "insert" ELSE "skip"

\* a table without its row for allow_updates = false
DecideWithoutSkipRow(found, allow_updates, label_text) ==
    IF found = {} \/ ~allow_updates THEN "insert"
    ELSE IF (CHOOSE l \in found : TRUE).label_text # label_text THEN "update"
    ELSE "skip"

\* a table that ignores allow_updates
DecideUpsert(found, allow_updates, label_text) ==
    IF found = {} THEN "insert"
    ELSE IF (CHOOSE l \in found : TRUE).label_text # label_text THEN "update"
    ELSE "skip"

\* a table that never compares the texts
DecideWithoutComparison(found, allow_updates, label_text) ==
    IF found = {} THEN "insert"
    ELSE IF allow_updates THEN "update"
    ELSE "skip"

\* the decision table of the loop body: found is the set holding the
\* translation the select returned, if any
Decide(found, allow_updates, label_text) ==
    IF found = {} THEN "insert"
    ELSE IF allow_updates /\ (CHOOSE l \in found : TRUE).label_text # label_text THEN "update"
    ELSE "skip"

\* the select of the existing translation and the branches that await nothing
SelectExisting(p) ==
    /\ pc[p] = "select_existing"
    /\ LET found == LabelByKey(req[p].language_id, label_code[p])
           row == CHOOSE l \in found : TRUE
           todo == Decide(found, req[p].allow_updates, label_item(p).label_text)
       IN  \/ /\ todo = "insert"
              /\ pc' = [pc EXCEPT ![p] = "create_select"]
              /\ UNCHANGED <<idx, label_code, existing_label_obj, results, counters,
                             response>>
           \/ /\ todo = "update"
              /\ pc' = [pc EXCEPT ![p] = "update_commit"]
              /\ existing_label_obj' = [existing_label_obj EXCEPT ![p] = row.id]
              /\ UNCHANGED <<idx, label_code, results, counters, response>>
           \/ /\ todo = "skip"
              /\ Skipped(p, row.id)
    /\ UNCHANGED <<extra, single, store, req, hist>>

\* existing_label_obj.label_text = label_item.label_text; await db.commit()
UpdateCommit(p) ==
    /\ pc[p] = "update_commit"
    /\ \/ /\ LabelById(existing_label_obj[p]) # {}
          /\ language_label' =
                {IF l.id = existing_label_obj[p]
                   THEN [l EXCEPT !.label_text = label_item(p).label_text] ELSE l
                 : l \in language_label}
          /\ pc' = [pc EXCEPT ![p] = "update_refresh"]
          /\ UNCHANGED <<languages, label_groups, label_codes, code_seq, label_seq, idx,
                         label_code, existing_label_obj, results, counters, response,
                         faults, log>>
       \/ \* the row is gone: the UPDATE matches no row, rollback
          /\ LabelById(existing_label_obj[p]) = {}
          /\ FailedUpdate(p)
          /\ UNCHANGED <<store, faults, log>>
       \/ /\ UnexpectedError(p, "update_commit")
          /\ FailedUpdate(p)
          /\ UNCHANGED store
    /\ UNCHANGED <<extra, single, req, calls, snap, prev>>

\* await db.refresh(existing_label_obj) and the result "updated"
UpdateRefresh(p) ==
    /\ pc[p] = "update_refresh"
    /\ \/ /\ LabelById(existing_label_obj[p]) # {}
          /\ EndItem(p, BulkLabelResult(label_item(p), TRUE, existing_label_obj[p], "updated"),
                     [counters[p] EXCEPT !.successful_updates = @ + 1])
          /\ UNCHANGED <<faults, log>>
       \/ /\ LabelById(existing_label_obj[p]) = {}
          /\ FailedUpdate(p)
          /\ UNCHANGED <<faults, log>>
       \/ /\ UnexpectedError(p, "update_refresh")
          /\ FailedUpdate(p)
    /\ UNCHANGED <<extra, single, store, req, calls, snap, prev>>

\* LanguageLabelService.create_language_label: its own select of the key
CreateSelect(p) ==
    /\ pc[p] = "create_select"
    /\ IF LabelByKey(req[p].language_id, label_code[p]) # {}
         THEN Failed(p)      \* ValueError: already exists
         ELSE /\ pc' = [pc EXCEPT ![p] = "create_commit"]
              /\ UNCHANGED <<idx, label_code, existing_label_obj, results, counters,
                             response>>
    /\ UNCHANGED <<extra, single, store, req, hist>>

\* LanguageLabelService.create_language_label: db.add; await db.commit()
CreateCommit(p) ==
    /\ pc[p] = "create_commit"
    /\ LET language_id == req[p].language_id
           label_id == label_code[p]
           valid == /\ LabelByKey(language_id, label_id) = {}
                    /\ language_id \in languages
                    /\ \E c \in label_codes : c.id = label_id
       IN  \/ /\ valid
              /\ language_label' = language_label \cup
                    {[id |-> label_seq, language_id |-> language_id, label_id |-> label_id,
                      label_text |-> label_item(p).label_text]}
              /\ label_seq' = label_seq + 1
              /\ existing_label_obj' = [existing_label_obj EXCEPT ![p] = label_seq]
              /\ pc' = [pc EXCEPT ![p] = "create_refresh"]
              /\ UNCHANGED <<languages, label_groups, label_codes, code_seq, idx,
                             label_code, results, counters, response, faults, log>>
           \/ \* IntegrityError: rollback, ValueError
              /\ ~valid
              /\ Failed(p)
              /\ UNCHANGED <<store, faults, log>>
           \/ /\ UnexpectedError(p, "create_commit")
              /\ Failed(p)
              /\ UNCHANGED store
    /\ UNCHANGED <<extra, single, req, calls, snap, prev>>

\* await db.refresh(language_label) and the result "inserted"
CreateRefresh(p) ==
    /\ pc[p] = "create_refresh"
    /\ \/ /\ LabelById(existing_label_obj[p]) # {}
          /\ Inserted(p)
          /\ UNCHANGED <<faults, log>>
       \/ /\ LabelById(existing_label_obj[p]) = {}
          /\ Failed(p)
          /\ UNCHANGED <<faults, log>>
       \/ /\ UnexpectedError(p, "create_refresh")
          /\ Failed(p)
    /\ UNCHANGED <<extra, single, store, req, calls, snap, prev>>

\* one await of the request p
Step(p) ==
    \/ SelectLanguage(p)
    \/ SelectGroup(p)
    \/ SelectCode(p)
    \/ CodeCommit(p)
    \/ CodeRefresh(p)
    \/ SelectExisting(p)
    \/ UpdateCommit(p)
    \/ UpdateRefresh(p)
    \/ CreateSelect(p)
    \/ CreateCommit(p)
    \/ CreateRefresh(p)

\* One client: a call of bulk_insert_labels and its repeats, one after another.
Next ==
    \/ StartBulk(1, LanguageIds, GroupIds, Batches)
    \/ RepeatBulk(1)
    \/ Step(1)

Spec == Init /\ [][Next]_vars

\* Two clients, each sending one one-item batch for group 1 and language 1
\* or 2; the store raises no unexpected error.
InitConc == InitWith(0) /\ Serving

NextConc ==
    \E p \in Procs :
        \/ StartBulk(p, {1, 2}, {1}, ConcBatches)
        \/ Step(p)

SpecConc == InitConc /\ [][NextConc]_vars

\* ------------------------------------------------ the single-item API
\* validate_label_data, create_language_label, get_language_label,
\* update_language_label, delete_language_label of LanguageLabelService and
\* the endpoints of main_postgresql.py that call them.
CodeIds == {1, 2, 3}             \* label codes 1 and 2 can exist, 3 never does

\* LabelValidationRequest; create, update and delete read its key and text
Candidates ==
    [language_id : {1, 2, 3}, label_group_id : GroupIds, label_code_id : CodeIds,
     label_text : Texts]

\* the requests two concurrent callers send under SpecMix: one key
MixCandidates ==
    [language_id : {1}, label_group_id : {1}, label_code_id : {2}, label_text : Texts]

MixBatches == {<<[label_code_name |-> "menu_home", label_text |-> t]>> : t \in Texts}

\* a code looked up by its id alone
CodeByIdAnyGroup(id, group_id) == {c \in label_codes : c.id = id}

\* LabelCode.id == label_code_id and LabelCode.label_group_id == label_group_id
CodeByIdAndGroup(id, group_id) ==
    {c \in label_codes : c.id = id /\ c.label_group_id = group_id}

\* a message that looks at the group before the language
ValidationMessageGroupFirst(f) ==
    IF ~f.group_exists THEN "label_group_does_not_exist"
    ELSE IF ~f.language_exists THEN "language_does_not_exist"
    ELSE IF ~f.code_exists THEN "label_code_does_not_exist_or_not_in_group"
    ELSE IF f.translation_exists THEN "translation_already_exists"
    ELSE "all_validation_checks_passed"

\* the if/elif chain that writes the message
ValidationMessage(f) ==
    IF ~f.language_exists THEN "language_does_not_exist"
    ELSE IF ~f.group_exists THEN "label_group_does_not_exist"
    ELSE IF ~f.code_exists THEN "label_code_does_not_exist_or_not_in_group"
    ELSE IF f.translation_exists THEN "translation_already_exists"
    ELSE "all_validation_checks_passed"

\* a verdict that does not look at the translation
LabelValidationResponseAdditive(f) ==
    [valid |-> f.language_exists /\ f.group_exists /\ f.code_exists,
     language_exists |-> f.language_exists,
     label_group_exists |-> f.group_exists,
     label_code_exists |-> f.code_exists,
     message |-> ValidationMessage(f)]

\* the LabelValidationResponse of the try block
LabelValidationResponse(f) ==
    [valid |-> f.language_exists /\ f.group_exists /\ f.code_exists /\ ~f.translation_exists,
     language_exists |-> f.language_exists,
     label_group_exists |-> f.group_exists,
     label_code_exists |-> f.code_exists,
     message |-> ValidationMessage(f)]

\* the LabelValidationResponse of except Exception
ValidationErrorResponse ==
    [valid |-> FALSE, language_exists |-> FALSE, label_group_exists |-> FALSE,
     label_code_exists |-> FALSE, message |-> "validation_error"]

\* a request enters a handler of the single-item API
EnterSingle(p, handler, c, first) ==
    /\ pc' = [pc EXCEPT ![p] = first]
    /\ op' = [op EXCEPT ![p] = handler]
    /\ cand' = [cand EXCEPT ![p] = c]
    /\ calls' = [calls EXCEPT ![p] = @ + 1]
    /\ snap' = [snap EXCEPT ![p] = [codes |-> label_codes, labels |-> language_label]]
    /\ trail' = [trail EXCEPT ![p] = <<first>>]
    /\ UNCHANGED <<extra, store, req, idx, label_code, existing_label_obj, results, counters,
                   response, faults, log, prev, facts, verdict, label_obj, outcome,
                   created>>

\* POST /api/labels/validate
StartValidate(p, cs) ==
    /\ pc[p] = "idle"
    /\ \E c \in cs : EnterSingle(p, "validate", c, "v_language")

\* POST /api/labels/insert-with-validation
StartInsertWithValidation(p, cs) ==
    /\ pc[p] = "idle"
    /\ \E c \in cs : EnterSingle(p, "insert_with_validation", c, "v_language")

\* POST /api/language-labels
StartCreate(p, cs) ==
    /\ pc[p] = "idle"
    /\ \E c \in cs : EnterSingle(p, "create", c, "ins_select")

\* PUT /api/language-labels/{language_id}/{label_id}
StartUpdate(p, cs) ==
    /\ pc[p] = "idle"
    /\ \E c \in cs : EnterSingle(p, "update", c, "upd_select")

\* DELETE /api/language-labels/{language_id}/{label_id}
StartDelete(p, cs) ==
    /\ pc[p] = "idle"
    /\ \E c \in cs : EnterSingle(p, "delete", c, "del_select")

\* the handler goes on to its next await
Goto(p, next) ==
    /\ pc' = [pc EXCEPT ![p] = next]
    /\ trail' = [trail EXCEPT ![p] = Append(@, next)]

\* the handler returns to its caller
ReturnSingle(p, step, success, message, created_label, verification_result) ==
    /\ pc' = [pc EXCEPT ![p] = "returned"]
    /\ trail' = [trail EXCEPT ![p] = Append(@, step)]
    /\ outcome' = [outcome EXCEPT ![p] =
          [step |-> step, success |-> success, message |-> message,
           created_label |-> created_label, verification_result |-> verification_result]]

\* an exception reaches the endpoint's except Exception: HTTP 500
Raised(p) == ReturnSingle(p, "error", FALSE, "failed", NoRow, NoRow)

\* a validation that lets the storage error through to its caller
ValidatedRaising(p, v) ==
    IF v.message = "validation_error"
      THEN Raised(p) /\ verdict' = verdict
      ELSE /\ verdict' = [verdict EXCEPT ![p] = v]
           /\ IF op[p] = "validate"
                THEN ReturnSingle(p, "validate", v.valid, v.message, NoRow, NoRow)
              ELSE IF ~v.valid
                THEN ReturnSingle(p, "validation", FALSE, v.message, NoRow, NoRow)
              ELSE Goto(p, "ins_select") /\ outcome' = outcome

\* an endpoint that inserts whatever the verdict
ValidatedInsertsAnyway(p, v) ==
    /\ verdict' = [verdict EXCEPT ![p] = v]
    /\ IF op[p] = "validate"
         THEN ReturnSingle(p, "validate", v.valid, v.message, NoRow, NoRow)
       ELSE Goto(p, "ins_select") /\ outcome' = outcome

\* validate_label_data returns v: the validate endpoint hands it on,
\* insert_label_with_validation stops at an invalid verdict and inserts
\* after a valid one
Validated(p, v) ==
    /\ verdict' = [verdict EXCEPT ![p] = v]
    /\ IF op[p] = "validate"
         THEN ReturnSingle(p, "validate", v.valid, v.message, NoRow, NoRow)
       ELSE IF ~v.valid
         THEN ReturnSingle(p, "validation", FALSE, v.message, NoRow, NoRow)
       ELSE Goto(p, "ins_select") /\ outcome' = outcome

\* except Exception of validate_label_data
ValidationError(p) ==
    /\ UnexpectedError(p, pc[p])
    /\ Validated(p, ValidationErrorResponse)
    /\ UNCHANGED facts

\* one select of validate_label_data that is not the last
ValidateSelect(p, next, f) ==
    /\ \/ /\ facts' = [facts EXCEPT ![p] = f]
          /\ Goto(p, next)
          /\ UNCHANGED <<verdict, outcome, faults, log>>
       \/ ValidationError(p)
    /\ UNCHANGED <<extra, store, req, idx, label_code, existing_label_obj, results, counters,
                   response, calls, snap, prev, op, cand, label_obj, created>>

ValidateLanguage(p) ==
    /\ pc[p] = "v_language"
    /\ ValidateSelect(p, "v_group",
        [facts[p] EXCEPT !.language_exists = cand[p].language_id \in languages])

ValidateGroup(p) ==
    /\ pc[p] = "v_group"
    /\ ValidateSelect(p, "v_code",
        [facts[p] EXCEPT !.group_exists = cand[p].label_group_id \in label_groups])

ValidateCode(p) ==
    /\ pc[p] = "v_code"
    /\ ValidateSelect(p, "v_translation",
        [facts[p] EXCEPT !.code_exists =
            CodeByIdAndGroup(cand[p].label_code_id, cand[p].label_group_id) # {}])

\* the select of the existing translation, valid, message and the return
ValidateTranslation(p) ==
    /\ pc[p] = "v_translation"
    /\ \/ LET f == [facts[p] EXCEPT !.translation_exists =
                        LabelByKey(cand[p].language_id, cand[p].label_code_id) # {}]
          IN  /\ facts' = [facts EXCEPT ![p] = f]
              /\ Validated(p, LabelValidationResponse(f))
              /\ UNCHANGED <<faults, log>>
       \/ ValidationError(p)
    /\ UNCHANGED <<extra, store, req, idx, label_code, existing_label_obj, results, counters,
                   response, calls, snap, prev, op, cand, label_obj, created>>

\* a ValueError of create_language_label that the endpoint does not catch
InsertionRaises(p, message) == Raised(p)

\* a ValueError of create_language_label at the endpoint:
\* insert_label_with_validation returns step "insertion", POST
\* /api/language-labels answers 400
InsertionRejected(p, message) ==
    IF op[p] = "insert_with_validation"
      THEN ReturnSingle(p, "insertion", FALSE, message, NoRow, NoRow)
      ELSE ReturnSingle(p, "bad_request", FALSE, message, NoRow, NoRow)

\* create_language_label: its select of the key
LabelSelect(p) ==
    /\ pc[p] = "ins_select"
    /\ \/ /\ LabelByKey(cand[p].language_id, cand[p].label_code_id) # {}
          /\ InsertionRejected(p, "translation_already_exists")
          /\ UNCHANGED <<faults, log>>
       \/ /\ LabelByKey(cand[p].language_id, cand[p].label_code_id) = {}
          /\ Goto(p, "ins_commit")
          /\ UNCHANGED <<outcome, faults, log>>
       \/ /\ UnexpectedError(p, "ins_select")
          /\ Raised(p)
    /\ UNCHANGED <<extra, store, req, idx, label_code, existing_label_obj, results, counters,
                   response, calls, snap, prev, op, cand, facts, verdict, label_obj,
                   created>>

\* a row that leaves the text out
LanguageLabelCreateUntexted(c, id) ==
    [id |-> id, language_id |-> c.language_id, label_id |-> c.label_code_id,
     label_text |-> NoText]

\* LanguageLabel(**label_data.dict()) with label_id = label_code_id
LanguageLabelCreate(c, id) ==
    [id |-> id, language_id |-> c.language_id, label_id |-> c.label_code_id,
     label_text |-> c.label_text]

\* a table language_label without its unique constraint
NoUniqueLanguageLabel(language_id, label_id) == TRUE

\* unique_language_label
UniqueLanguageLabel(language_id, label_id) == LabelByKey(language_id, label_id) = {}

\* create_language_label: db.add(language_label); await db.commit()
LabelCommit(p) ==
    /\ pc[p] = "ins_commit"
    /\ LET row == LanguageLabelCreate(cand[p], label_seq)
           valid == /\ UniqueLanguageLabel(row.language_id, row.label_id)
                    /\ row.language_id \in languages
                    /\ \E c \in label_codes : c.id = row.label_id
       IN  \/ /\ valid
              /\ language_label' = language_label \cup {row}
              /\ label_seq' = label_seq + 1
              /\ label_obj' = [label_obj EXCEPT ![p] = row.id]
              /\ created' = [created EXCEPT ![p] = @ \cup {row}]
              /\ Goto(p, "ins_refresh")
              /\ UNCHANGED <<languages, label_groups, label_codes, code_seq, outcome,
                             faults, log>>
           \/ \* IntegrityError: rollback, ValueError
              /\ ~valid
              /\ InsertionRejected(p, "translation_already_exists_or_invalid_data")
              /\ UNCHANGED <<store, label_obj, created, faults, log>>
           \/ /\ UnexpectedError(p, "ins_commit")
              /\ Raised(p)
              /\ UNCHANGED <<store, label_obj, created>>
    /\ UNCHANGED <<extra, req, idx, label_code, existing_label_obj, results, counters,
                   response, calls, snap, prev, op, cand, facts, verdict>>

\* create_language_label: await db.refresh(language_label) and the return
LabelRefresh(p) ==
    /\ pc[p] = "ins_refresh"
    /\ \/ \E row \in LabelById(label_obj[p]) :
             /\ IF op[p] = "insert_with_validation"
                  THEN /\ Goto(p, "verify")
                       /\ outcome' = [outcome EXCEPT ![p].created_label = row]
                  ELSE ReturnSingle(p, "created", TRUE, "created", row, NoRow)
             /\ UNCHANGED <<faults, log>>
       \/ \* the row is gone: the refresh finds nothing
          /\ LabelById(label_obj[p]) = {}
          /\ Raised(p)
          /\ UNCHANGED <<faults, log>>
       \/ /\ UnexpectedError(p, "ins_refresh")
          /\ Raised(p)
    /\ UNCHANGED <<extra, store, req, idx, label_code, existing_label_obj, results, counters,
                   response, calls, snap, prev, op, cand, facts, verdict, label_obj,
                   created>>

\* get_language_label
GetLanguageLabel(language_id, label_id) ==
    LET found == LabelByKey(language_id, label_id)
    IN  IF found = {} THEN NoRow ELSE CHOOSE l \in found : TRUE

\* Step 3 of insert_label_with_validation and its return
Verify(p) ==
    /\ pc[p] = "verify"
    /\ \/ /\ ReturnSingle(p, "complete", TRUE, "validated_inserted_and_verified",
                          outcome[p].created_label,
                          GetLanguageLabel(cand[p].language_id, cand[p].label_code_id))
          /\ UNCHANGED <<faults, log>>
       \/ /\ UnexpectedError(p, "verify")
          /\ Raised(p)
    /\ UNCHANGED <<extra, store, req, idx, label_code, existing_label_obj, results, counters,
                   response, calls, snap, prev, op, cand, facts, verdict, label_obj,
                   created>>

\* update_language_label: its select; the endpoint's 404 is raised inside its
\* try and leaves through except Exception
UpdateLabelSelect(p) ==
    /\ pc[p] = "upd_select"
    /\ LET found == LabelByKey(cand[p].language_id, cand[p].label_code_id)
       IN  IF found = {}
             THEN Raised(p) /\ label_obj' = label_obj
             ELSE /\ Goto(p, "upd_commit")
                  /\ label_obj' = [label_obj EXCEPT ![p] = (CHOOSE l \in found : TRUE).id]
                  /\ outcome' = outcome
    /\ UNCHANGED <<extra, store, req, idx, label_code, existing_label_obj, results, counters,
                   response, hist, op, cand, facts, verdict, created>>

\* update_language_label: setattr(language_label, "label_text", ...); commit
UpdateLabelCommit(p) ==
    /\ pc[p] = "upd_commit"
    /\ IF LabelById(label_obj[p]) # {}
         THEN /\ language_label' =
                    {IF l.id = label_obj[p]
                       THEN [l EXCEPT !.label_text = cand[p].label_text] ELSE l
                     : l \in language_label}
              /\ Goto(p, "upd_refresh")
              /\ outcome' = outcome
         ELSE \* the UPDATE matches no row: rollback, ValueError
              /\ Raised(p)
              /\ language_label' = language_label
    /\ UNCHANGED <<extra, languages, label_groups, label_codes, code_seq, label_seq, req, idx,
                   label_code, existing_label_obj, results, counters, response, hist, op,
                   cand, facts, verdict, label_obj, created>>

\* update_language_label: await db.refresh(language_label) and the return
UpdateLabelRefresh(p) ==
    /\ pc[p] = "upd_refresh"
    /\ \/ \E row \in LabelById(label_obj[p]) :
             ReturnSingle(p, "updated", TRUE, "updated", row, NoRow)
       \/ LabelById(label_obj[p]) = {} /\ Raised(p)
    /\ UNCHANGED <<extra, store, req, idx, label_code, existing_label_obj, results, counters,
                   response, hist, op, cand, facts, verdict, label_obj, created>>

\* delete_language_label: its select; False becomes the endpoint's 404
DeleteLabelSelect(p) ==
    /\ pc[p] = "del_select"
    /\ LET found == LabelByKey(cand[p].language_id, cand[p].label_code_id)
       IN  IF found = {}
             THEN /\ ReturnSingle(p, "not_found", FALSE, "language_label_not_found",
                                  NoRow, NoRow)
                  /\ label_obj' = label_obj
             ELSE /\ Goto(p, "del_commit")
                  /\ label_obj' = [label_obj EXCEPT ![p] = (CHOOSE l \in found : TRUE).id]
                  /\ outcome' = outcome
    /\ UNCHANGED <<extra, store, req, idx, label_code, existing_label_obj, results, counters,
                   response, hist, op, cand, facts, verdict, created>>

\* a delete that takes every translation of the language with it
DeleteLabelCommitByLanguage(p) ==
    /\ pc[p] = "del_commit"
    /\ language_label' = {l \in language_label : l.language_id # cand[p].language_id}
    /\ ReturnSingle(p, "deleted", TRUE, "language_label_deleted", NoRow, NoRow)
    /\ UNCHANGED <<extra, languages, label_groups, label_codes, code_seq, label_seq, req, idx,
                   label_code, existing_label_obj, results, counters, response, hist, op,
                   cand, facts, verdict, label_obj, created>>

\* delete_language_label: await db.delete(language_label); await db.commit()
DeleteLabelCommit(p) ==
    /\ pc[p] = "del_commit"
    /\ language_label' = {l \in language_label : l.id # label_obj[p]}
    /\ ReturnSingle(p, "deleted", TRUE, "language_label_deleted", NoRow, NoRow)
    /\ UNCHANGED <<extra, languages, label_groups, label_codes, code_seq, label_seq, req, idx,
                   label_code, existing_label_obj, results, counters, response, hist, op,
                   cand, facts, verdict, label_obj, created>>

\* one await of validate_label_data or of the insert protocol
SingleStep(p) ==
    \/ ValidateLanguage(p)
    \/ ValidateGroup(p)
    \/ ValidateCode(p)
    \/ ValidateTranslation(p)
    \/ LabelSelect(p)
    \/ LabelCommit(p)
    \/ LabelRefresh(p)
    \/ Verify(p)

\* one await of update_language_label or delete_language_label
EditStep(p) ==
    \/ UpdateLabelSelect(p)
    \/ UpdateLabelCommit(p)
    \/ UpdateLabelRefresh(p)
    \/ DeleteLabelSelect(p)
    \/ DeleteLabelCommit(p)

\* One client, one call of the validate endpoint or of
\* insert_label_with_validation with any candidate; the store may raise
\* unexpected errors.
NextSingle ==
    \/ StartValidate(1, Candidates)
    \/ StartInsertWithValidation(1, Candidates)
    \/ SingleStep(1)

SpecSingle == Init /\ [][NextSingle]_vars

\* Two clients, each making one call on the key (language 1, label code 2 of
\* group 1): a single insert, a direct create, an update, a delete or a
\* one-item batch; the store raises no unexpected error.
NextMix ==
    \E p \in Procs :
        \/ StartInsertWithValidation(p, MixCandidates)
        \/ StartCreate(p, MixCandidates)
        \/ StartUpdate(p, MixCandidates)
        \/ StartDelete(p, {[c EXCEPT !.label_text = NoText] : c \in MixCandidates})
        \/ StartBulk(p, {1}, {1}, MixBatches)
        \/ Step(p)
        \/ SingleStep(p)
        \/ EditStep(p)

SpecMix == InitConc /\ [][NextMix]_vars

\* the batches two concurrent callers send under SpecKey: every item names
\* the code menu_home
KeyBatches ==
    {s \in SeqsUpTo([label_code_name : {"menu_home"}, label_text : Texts], MaxBatch) :
        Len(s) >= 1}

\* Two clients, each sending one batch for language 1 and group 1 whose items
\* all name the code menu_home; the store raises no unexpected error.
NextKey ==
    \E p \in Procs :
        \/ StartBulk(p, {1}, {1}, KeyBatches)
        \/ Step(p)

SpecKey == InitConc /\ [][NextKey]_vars

\* ------------------------------------------------ languages and label groups
\* LanguageService.delete_language, LabelGroupService.delete_label_group.

\* the requests two concurrent callers send under SpecAdmin
AdminCandidates ==
    [language_id : LanguageIds, label_group_id : {1, 2}, label_code_id : {2, 3},
     label_text : {"Home"}]

\* DELETE /api/languages/{language_id}
StartDeleteLanguage(p, ids) ==
    /\ pc[p] = "idle"
    /\ \E id \in ids :
          EnterSingle(p, "delete_language", [NoCandidate EXCEPT !.language_id = id],
                      "dl_select")

\* LabelGroupService.delete_label_group(group_id, db)
StartDeleteGroup(p, ids) ==
    /\ pc[p] = "idle"
    /\ \E id \in ids :
          EnterSingle(p, "delete_label_group", [NoCandidate EXCEPT !.label_group_id = id],
                      "dg_select")

\* delete_language: its select; False becomes the endpoint's 404
DeleteLanguageSelect(p) ==
    /\ pc[p] = "dl_select"
    /\ IF cand[p].language_id \notin languages
         THEN ReturnSingle(p, "not_found", FALSE, "language_not_found", NoRow, NoRow)
         ELSE Goto(p, "dl_commit") /\ outcome' = outcome
    /\ UNCHANGED <<extra, store, req, idx, label_code, existing_label_obj, results,
                   counters, response, hist, op, cand, facts, verdict, label_obj, created>>

\* a delete that removes the row
HardDelete(id) == [rows |-> languages \ {id}, active |-> active \ {id}]

\* language.active = False
SoftDelete(id) == [rows |-> languages, active |-> active \ {id}]

\* delete_language: language.active = False; await db.commit()
DeleteLanguageCommit(p) ==
    /\ pc[p] = "dl_commit"
    /\ LET after == SoftDelete(cand[p].language_id)
       IN  /\ languages' = after.rows
           /\ active' = after.active
    /\ ReturnSingle(p, "deactivated", TRUE, "language_deactivated", NoRow, NoRow)
    /\ UNCHANGED <<children, app, label_groups, label_codes, language_label, code_seq,
                   label_seq, req, idx, label_code, existing_label_obj, results,
                   counters, response, hist, op, cand, facts, verdict, label_obj, created>>

\* delete_label_group: its select
DeleteGroupSelect(p) ==
    /\ pc[p] = "dg_select"
    /\ IF cand[p].label_group_id \notin label_groups
         THEN ReturnSingle(p, "not_found", FALSE, "label_group_not_found", NoRow, NoRow)
         ELSE Goto(p, "dg_load") /\ outcome' = outcome
    /\ UNCHANGED <<extra, store, req, idx, label_code, existing_label_obj, results,
                   counters, response, hist, op, cand, facts, verdict, label_obj, created>>

\* await db.commit(), the flush: the relationship label_codes has no delete
\* cascade, so the unit of work loads the group's label codes
DeleteGroupLoad(p) ==
    /\ pc[p] = "dg_load"
    /\ children' = [children EXCEPT ![p] =
          {c.id : c \in {x \in label_codes : x.label_group_id = cand[p].label_group_id}}]
    /\ Goto(p, "dg_commit")
    /\ UNCHANGED <<active, app, store, req, idx, label_code, existing_label_obj, results,
                   counters, response, hist, op, cand, facts, verdict, label_obj, outcome,
                   created>>

\* a label_codes table whose label_group_id is not checked
NoLabelGroupForeignKey(codes, groups) == TRUE

\* label_group_id = Column(Integer, ForeignKey("label_groups.id"), nullable=True)
LabelGroupForeignKey(codes, groups) ==
    \A c \in codes : c.label_group_id # NoId => c.label_group_id \in groups

\* the label codes after the flush has set label_group_id of the loaded ones
\* to NULL
Nullified(codes, ids) ==
    {IF c.id \in ids THEN [c EXCEPT !.label_group_id = NoId] ELSE c : c \in codes}

\* await db.commit(): UPDATE label_codes SET label_group_id = NULL for the
\* codes loaded, DELETE of the group, COMMIT; a code that has joined the
\* group since the load makes the DELETE fail and the exception leaves
\* delete_label_group
DeleteGroupCommit(p) ==
    /\ pc[p] = "dg_commit"
    /\ LET codes == Nullified(label_codes, children[p])
           groups == label_groups \ {cand[p].label_group_id}
       IN  IF LabelGroupForeignKey(codes, groups)
             THEN /\ label_codes' = codes
                  /\ label_groups' = groups
                  /\ ReturnSingle(p, "group_deleted", TRUE, "label_group_deleted", NoRow,
                                  NoRow)
             ELSE /\ Raised(p)
                  /\ UNCHANGED <<label_codes, label_groups>>
    /\ UNCHANGED <<extra, languages, language_label, code_seq, label_seq, req, idx,
                   label_code, existing_label_obj, results, counters, response, hist, op,
                   cand, facts, verdict, label_obj, created>>

\* one await of delete_language or delete_label_group
AdminStep(p) ==
    \/ DeleteLanguageSelect(p)
    \/ DeleteLanguageCommit(p)
    \/ DeleteGroupSelect(p)
    \/ DeleteGroupLoad(p)
    \/ DeleteGroupCommit(p)

\* Two clients, each making one call: a language or a label group deleted, a
\* translation validated, inserted, created or deleted, or a one-item batch;
\* the store raises no unexpected error.
NextAdmin ==
    \E p \in Procs :
        \/ StartDeleteLanguage(p, LanguageIds)
        \/ StartDeleteGroup(p, {1, 3})
        \/ StartValidate(p, AdminCandidates)
        \/ StartInsertWithValidation(p, AdminCandidates)
        \/ StartCreate(p, AdminCandidates)
        \/ StartDelete(p, {[c EXCEPT !.label_text = NoText, !.label_group_id = NoId]
                              : c \in AdminCandidates})
        \/ StartBulk(p, {1}, {1}, MixBatches)
        \/ Step(p)
        \/ SingleStep(p)
        \/ DeleteLabelSelect(p)
        \/ DeleteLabelCommit(p)
        \/ AdminStep(p)

SpecAdmin == InitConc /\ [][NextAdmin]_vars

\* ------------------------------------------------ startup, /health, /submit-email
\* lifespan, health_check and submit_email of main_postgresql.py and
\* create_tables of database_psycopg.py.

\* the addresses clients submit
Addresses == {"Ann@x.io ", "ann@x.io", "bob@x.io"}

\* email_request.email.lower().strip()
Normal(e) == IF e = "Ann@x.io " THEN "ann@x.io" ELSE e

\* the application before its startup: the module has set database_available
\* to True, and the database answers or does not
Starting ==
    /\ lifespan_at = "startup"
    /\ reachable \in BOOLEAN
    /\ database_available = TRUE

InitBoot == InitWith(MaxFaults) /\ Starting

\* create_tables: Base.metadata.create_all inside try; its except Exception
\* logs the failure and returns, so the call never raises
create_tables(answers) == [created |-> answers, raised |-> FALSE]

\* lifespan up to its yield: try: await create_tables(); database_available =
\* True; except Exception: database_available = False
Lifespan ==
    /\ lifespan_at = "startup"
    /\ database_available' = ~create_tables(reachable).raised
    /\ lifespan_at' = "serving"
    /\ UNCHANGED <<admin, reachable, emails, email_request, store, local, hist, single>>

\* GET /health
HealthCheck(p) ==
    /\ lifespan_at = "serving"
    /\ pc[p] = "idle"
    /\ op' = [op EXCEPT ![p] = "health"]
    /\ calls' = [calls EXCEPT ![p] = @ + 1]
    /\ ReturnSingle(p, "health", database_available,
                    IF database_available THEN "healthy_connected"
                    ELSE "degraded_disconnected", NoRow, NoRow)
    /\ UNCHANGED <<extra, store, req, idx, label_code, existing_label_obj, results,
                   counters, response, faults, log, snap, prev, cand, facts, verdict,
                   label_obj, created>>

\* POST /submit-email up to its first await: 503 when database_available is
\* False
SubmitEmail(p, addresses) ==
    /\ lifespan_at = "serving"
    /\ pc[p] = "idle"
    /\ op' = [op EXCEPT ![p] = "submit_email"]
    /\ calls' = [calls EXCEPT ![p] = @ + 1]
    /\ \E e \in addresses : email_request' = [email_request EXCEPT ![p] = e]
    /\ IF ~database_available
         THEN ReturnSingle(p, "unavailable_503", FALSE, "database_unavailable", NoRow, NoRow)
         ELSE /\ pc' = [pc EXCEPT ![p] = "em_select"]
              /\ trail' = [trail EXCEPT ![p] = <<"em_select">>]
              /\ outcome' = outcome
    /\ UNCHANGED <<admin, database_available, lifespan_at, reachable, emails, store, req,
                   idx, label_code, existing_label_obj, results, counters, response,
                   faults, log, snap, prev, cand, facts, verdict, label_obj, created>>

\* except Exception of submit_email: rollback, HTTP 500
EmailError(p) == ReturnSingle(p, "error_500", FALSE, "error_processing_request", NoRow, NoRow)

\* the select of the existing email
EmailSelect(p) ==
    /\ pc[p] = "em_select"
    /\ \/ /\ ~reachable
          /\ EmailError(p)
          /\ UNCHANGED <<faults, log>>
       \/ /\ reachable
          /\ IF Normal(email_request[p]) \in emails
               THEN ReturnSingle(p, "registered", TRUE, "email_already_registered", NoRow,
                                 NoRow)
               ELSE Goto(p, "em_commit") /\ outcome' = outcome
          /\ UNCHANGED <<faults, log>>
       \/ /\ reachable
          /\ UnexpectedError(p, "em_select")
          /\ EmailError(p)
    /\ UNCHANGED <<extra, store, req, idx, label_code, existing_label_obj, results,
                   counters, response, calls, snap, prev, op, cand, facts, verdict,
                   label_obj, created>>

\* db.add(new_email); await db.commit(); the unique email makes a second
\* commit of an address an IntegrityError, answered with success
EmailCommit(p) ==
    /\ pc[p] = "em_commit"
    /\ \/ /\ Normal(email_request[p]) \notin emails
          /\ emails' = emails \cup {Normal(email_request[p])}
          /\ Goto(p, "em_refresh")
          /\ UNCHANGED <<outcome, faults, log>>
       \/ /\ Normal(email_request[p]) \in emails
          /\ ReturnSingle(p, "registered", TRUE, "email_already_registered", NoRow, NoRow)
          /\ UNCHANGED <<emails, faults, log>>
       \/ /\ UnexpectedError(p, "em_commit")
          /\ EmailError(p)
          /\ UNCHANGED emails
    /\ UNCHANGED <<admin, database_available, lifespan_at, reachable, email_request, store,
                   req, idx, label_code, existing_label_obj, results, counters, response,
                   calls, snap, prev, op, cand, facts, verdict, label_obj, created>>

\* await db.refresh(new_email) and the return
EmailRefresh(p) ==
    /\ pc[p] = "em_refresh"
    /\ \/ /\ ReturnSingle(p, "registered", TRUE, "email_successfully_registered", NoRow,
                          NoRow)
          /\ UNCHANGED <<faults, log>>
       \/ /\ UnexpectedError(p, "em_refresh")
          /\ EmailError(p)
    /\ UNCHANGED <<extra, store, req, idx, label_code, existing_label_obj, results,
                   counters, response, calls, snap, prev, op, cand, facts, verdict,
                   label_obj, created>>

\* The application starts, with a database that answers or does not, and then
\* serves two clients, each asking for /health or submitting an address.
NextBoot ==
    \/ Lifespan
    \/ \E p \in Procs :
          \/ HealthCheck(p)
          \/ SubmitEmail(p, Addresses)
          \/ EmailSelect(p)
          \/ EmailCommit(p)
          \/ EmailRefresh(p)

SpecBoot == InitBoot /\ [][NextBoot]_vars

\* ===================================================================
\* Properties
\* ===================================================================
CommitPoints == {"code_commit", "create_commit", "update_commit"}

\* the text stored for (language_id, the code called name in group_id) in the
\* given tables, NoText when there is none
KeyText(codes, labels, language_id, group_id, name) ==
    LET cs == {c \in codes : c.name = name /\ c.label_group_id = group_id}
        ls == {l \in labels : l.language_id = language_id /\ \E c \in cs : l.label_id = c.id}
    IN  IF ls = {} THEN NoText ELSE (CHOOSE l \in ls : TRUE).label_text

StartText(p, name) ==
    KeyText(snap[p].codes, snap[p].labels, req[p].language_id, req[p].label_group_id, name)

NowText(p, name) ==
    KeyText(label_codes, language_label, req[p].language_id, req[p].label_group_id, name)

\* The decision table of the specification, run over the texts of the batch's
\* keys: the actions it assigns to the items from i on, when the items in bad
\* are hit by a storage error (at a commit: nothing is written; at the
\* refresh after a commit: the write stays).
RECURSIVE Outcomes(_, _, _, _, _)
Outcomes(texts, labels, allow_updates, bad, i) ==
    IF i > Len(labels) THEN <<>>
    ELSE LET name == labels[i].label_code_name
             text == labels[i].label_text
             hit == {f \in bad : f.idx = i}
             action == IF hit # {}
                         THEN IF texts[name] # NoText THEN "failed_update" ELSE "failed"
                       ELSE IF texts[name] = NoText THEN "inserted"
                       ELSE IF allow_updates /\ texts[name] # text THEN "updated"
                       ELSE "skipped"
             written == \/ action \in {"inserted", "updated"}
                        \/ \E f \in hit : f.point \in {"create_refresh", "update_refresh"}
             after == IF written THEN [texts EXCEPT ![name] = text] ELSE texts
         IN  <<action>> \o Outcomes(after, labels, allow_updates, bad, i + 1)

\* the call of p has returned and its language and group exist
Passed(p) ==
    /\ pc[p] = "done"
    /\ req[p].language_id \in languages
    /\ req[p].label_group_id \in label_groups

\* the call of p has returned and repeats the call before it
Repeated(p) == pc[p] = "done" /\ calls[p] >= 2

Uniform(labels, i) ==
    \A j \in 1..Len(labels) :
        labels[j].label_code_name = labels[i].label_code_name
            => labels[j].label_text = labels[i].label_text

FirstOf(labels, i) ==
    \A j \in 1..(i - 1) : labels[j].label_code_name # labels[i].label_code_name

C2_AsStated ==
    \A p \in Procs :
        (/\ Repeated(p)
         /\ ~req[p].allow_updates
         /\ prev[p].log.fault = {} /\ log[p].fault = {})
        => /\ response[p].skipped_labels = Len(req[p].labels)
           /\ response[p].successful_insertions = 0
           /\ label_codes = snap[p].codes
           /\ language_label = snap[p].labels

\* C2 amended: the same, for the batches whose language and group exist.
C2_Idempotent ==
    \A p \in Procs :
        (/\ Repeated(p)
         /\ Passed(p)
         /\ ~req[p].allow_updates
         /\ prev[p].log.fault = {} /\ log[p].fault = {})
        => /\ response[p].skipped_labels = Len(req[p].labels)
           /\ response[p].successful_insertions = 0
           /\ label_codes = snap[p].codes
           /\ language_label = snap[p].labels

C2_Witness ==
    /\ Repeated(1)
    /\ Passed(1)
    /\ ~req[1].allow_updates
    /\ prev[1].log.fault = {} /\ log[1].fault = {}
    /\ prev[1].response.successful_insertions = 2
    /\ response[1].skipped_labels = 2

\* what C3 says of item i of the call p has returned from
Converged(p, i) ==
    LET labels == req[p].labels
        name == labels[i].label_code_name
        same == {j \in 1..Len(labels) : labels[j].label_code_name = name}
    IN  /\ (/\ StartText(p, name) \notin {NoText, labels[i].label_text}
            /\ FirstOf(labels, i))
           => /\ response[p].results[i].action = "updated"
              /\ NowText(p, name) = labels[i].label_text
        /\ (/\ Repeated(p)
            /\ prev[p].log.fault = {}
            /\ prev[p].response.results[i].action = "updated")
           => /\ response[p].results[i].action = "skipped"
              /\ NowText(p, name) = StartText(p, name)
              /\ NowText(p, name) = labels[i].label_text

\* C3 as stated: with allow_updates = true, an item whose translation exists
\* with another text is updated and the stored text is its text when the call
\* returns; in the repeat of the call the item is skipped and the text stays.
C3_AsStated ==
    \A p \in Procs :
        (Passed(p) /\ req[p].allow_updates /\ log[p].fault = {})
        => \A i \in 1..Len(req[p].labels) : Converged(p, i)

\* C3 amended: the same, for the items whose label code no other item of the
\* batch names with a different text; of the items naming that code exactly
\* one is updated.
C3_UpdateConverges ==
    \A p \in Procs :
        (Passed(p) /\ req[p].allow_updates /\ log[p].fault = {})
        => \A i \in 1..Len(req[p].labels) :
              Uniform(req[p].labels, i)
              => /\ Converged(p, i)
                 /\ StartText(p, req[p].labels[i].label_code_name)
                        \notin {NoText, req[p].labels[i].label_text}
                    => Cardinality({j \in 1..Len(req[p].labels) :
                          /\ req[p].labels[j].label_code_name = req[p].labels[i].label_code_name
                          /\ response[p].results[j].action = "updated"}) = 1
                       /\ response[p].successful_updates
                            = Cardinality({j \in 1..Len(req[p].labels) :
                                  response[p].results[j].action = "updated"})

C3_Witness ==
    /\ Repeated(1)
    /\ Passed(1)
    /\ req[1].allow_updates
    /\ prev[1].log.fault = {} /\ log[1].fault = {}
    /\ prev[1].response.results[1].action = "updated"
    /\ prev[1].response.successful_updates = 1
    /\ response[1].results[1].action = "skipped"
    /\ NowText(1, req[1].labels[1].label_code_name) = req[1].labels[1].label_text

\* C4: a request whose language or label group does not exist is rejected
\* before any item is looked at: no label code is created, no translation is
\* written or changed, the result list is empty, failed_insertions is the
\* length of the batch, every other counter is 0 and success is false.
C4_Rejected ==
    \A p \in Procs :
        (/\ pc[p] # "idle"
         /\ \/ req[p].language_id \notin languages
            \/ req[p].label_group_id \notin label_groups)
        => /\ pc[p] \in {"select_language", "select_group", "done"}
           /\ idx[p] = 0
           /\ log[p].missing = {}
           /\ label_codes = snap[p].codes
           /\ language_label = snap[p].labels
           /\ pc[p] = "done"
              => /\ response[p].results = <<>>
                 /\ response[p].failed_insertions = Len(req[p].labels)
                 /\ response[p].total_labels = Len(req[p].labels)
                 /\ response[p].successful_insertions = 0
                 /\ response[p].successful_updates = 0
                 /\ response[p].skipped_labels = 0
                 /\ ~response[p].success

C4_Witness ==
    /\ pc[1] = "done"
    /\ req[1].language_id \in languages
    /\ req[1].label_group_id \notin label_groups
    /\ Len(req[1].labels) = 2
    /\ response[1].failed_insertions = 2
    /\ response[1].results = <<>>

\* C5, for two requests of different languages: an item whose name was not in
\* the group when the request looked it up ends inserted, with exactly one
\* label code of that name in the batch's group; and no two label codes share
\* (name, label_group_id), also when batches run concurrently.
C5_AutoProvisioned ==
    /\ \A c, d \in label_codes :
          (c.name = d.name /\ c.label_group_id = d.label_group_id) => c = d
    /\ \A p \in Procs :
          (/\ pc[p] = "done"
           /\ \A q \in Procs \ {p} : req[q].language_id # req[p].language_id)
          => \A i \in log[p].missing :
                /\ Cardinality(CodeByNameAndGroup(req[p].labels[i].label_code_name,
                                                  req[p].label_group_id)) = 1
                /\ response[p].results[i].action = "inserted"

\* C6: an item whose key has no translation creates exactly one LanguageLabel
\* row, with its text, is reported inserted and counted once in
\* successful_insertions, whatever allow_updates is; a batch of distinct names
\* without translations answers successful_insertions = total_labels =
\* len(labels), failed_insertions = 0 and one result per label (no storage
\* error in the call).
C6_InsertRow ==
    \A p \in Procs :
        (Passed(p) /\ log[p].fault = {}) =>
            LET r == req[p]
                n == Len(r.labels)
                res == response[p].results
                fresh == {i \in 1..n : /\ FirstOf(r.labels, i)
                                       /\ StartText(p, r.labels[i].label_code_name) = NoText}
            IN  /\ \A i \in fresh :
                      LET rows == LabelById(res[i].label_id)
                          codes == CodeByNameAndGroup(r.labels[i].label_code_name,
                                                      r.label_group_id)
                      IN  /\ res[i].action = "inserted"
                          /\ res[i].success
                          /\ Cardinality(rows) = 1
                          /\ \A l \in rows :
                                /\ l.language_id = r.language_id
                                /\ \E c \in codes : c.id = l.label_id
                                /\ Cardinality(LabelByKey(l.language_id, l.label_id)) = 1
                                /\ \A o \in snap[p].labels : o.id # l.id
                                /\ Uniform(r.labels, i) => l.label_text = r.labels[i].label_text
                /\ response[p].successful_insertions = Cardinality(fresh)
                /\ Cardinality(language_label)
                      = Cardinality(snap[p].labels) + response[p].successful_insertions
                /\ fresh = 1..n
                   => /\ response[p].successful_insertions = n
                      /\ response[p].total_labels = n
                      /\ response[p].failed_insertions = 0
                      /\ Len(res) = n

C6_Witness ==
    /\ Passed(1)
    /\ log[1].fault = {}
    /\ req[1].allow_updates
    /\ Len(req[1].labels) = 2
    /\ req[1].labels[1].label_code_name # req[1].labels[2].label_code_name
    /\ response[1].successful_insertions = 2
    /\ Cardinality(language_label) = Cardinality(snap[1].labels) + 2

\* the request p is at the select of its item's translation, the translation
\* exists, and updates are off or the stored text is the item's text
SkipCase(p) ==
    /\ pc[p] = "select_existing"
    /\ \E l \in LabelByKey(req[p].language_id, label_code[p]) :
          ~req[p].allow_updates \/ l.label_text = label_item(p).label_text

\* C7: an item whose translation exists, with allow_updates false or with the
\* stored text equal to its text, is reported skipped, adds one to
\* skipped_labels and nothing else, and writes nothing: every row is as it was.
C7_SkipWritesNothing ==
    [][\A p \in Procs :
          (SkipCase(p) /\ <<pc[p], idx[p]>>' # <<pc[p], idx[p]>>)
          => /\ Len(results'[p]) = Len(results[p]) + 1
             /\ results'[p][idx[p]].action = "skipped"
             /\ ~results'[p][idx[p]].success
             /\ results'[p][idx[p]].label_code_name = label_item(p).label_code_name
             /\ counters'[p] = [counters[p] EXCEPT !.skipped_labels = @ + 1]
             /\ UNCHANGED store]_vars

C7_Witness ==
    /\ Passed(1)
    /\ req[1].allow_updates
    /\ Len(req[1].labels) = 2
    /\ response[1].skipped_labels = 2
    /\ response[1].results[1].action = "skipped"
    /\ language_label = snap[1].labels

\* C8: with allow_updates false and no translation before, a batch naming one
\* label code twice inserts the first occurrence and skips the later one, and
\* the stored text is the first occurrence's.
C8_DuplicateInBatch ==
    \A p \in Procs :
        (Passed(p) /\ ~req[p].allow_updates /\ log[p].fault = {}) =>
            LET labels == req[p].labels
            IN  \A i, j \in 1..Len(labels) :
                    (/\ i < j
                     /\ labels[i].label_code_name = labels[j].label_code_name
                     /\ FirstOf(labels, i)
                     /\ StartText(p, labels[i].label_code_name) = NoText)
                    => /\ response[p].results[i].action = "inserted"
                       /\ response[p].results[j].action = "skipped"
                       /\ NowText(p, labels[i].label_code_name) = labels[i].label_text

C8_Witness ==
    /\ Passed(1)
    /\ req[1].labels = <<[label_code_name |-> "menu_home", label_text |-> "Home"],
                         [label_code_name |-> "menu_home", label_text |-> "Homepage"]>>
    /\ ~req[1].allow_updates
    /\ req[1].label_group_id = 1
    /\ response[1].results[1].action = "inserted"
    /\ response[1].results[2].action = "skipped"
    /\ NowText(1, "menu_home") = "Home"

ItemPhases ==
    {"select_code", "code_commit", "code_refresh", "select_existing", "update_commit",
     "update_refresh", "create_select", "create_commit", "create_refresh"}

\* the results so far are those of the first items of the batch, in order, and
\* the request is at the item after them
InOrder(p) ==
    /\ \A i \in 1..Len(results[p]) :
          /\ results[p][i].label_code_name = req[p].labels[i].label_code_name
          /\ results[p][i].label_text = req[p].labels[i].label_text
    /\ pc[p] \in ItemPhases
       => idx[p] \in 1..Len(req[p].labels) /\ Len(results[p]) = idx[p] - 1
    /\ Passed(p)
       => response[p].results = results[p] /\ Len(results[p]) = Len(req[p].labels)

\* a step of the call of p goes on with the same item or ends it and goes to
\* the next one, and a row it writes is the row of the item it is at
OneItemAtATime(p) ==
    calls'[p] = calls[p] =>
        /\ \/ idx'[p] = idx[p] /\ Len(results'[p]) \in {Len(results[p]), Len(results[p]) + 1}
           \/ idx'[p] = idx[p] + 1 /\ pc[p] = "select_group" /\ results'[p] = results[p]
           \/ idx'[p] = idx[p] + 1 /\ Len(results'[p]) = Len(results[p]) + 1
        /\ (pc'[p] # pc[p] \/ idx'[p] # idx[p]) =>
              /\ \A c \in label_codes' \ label_codes :
                    /\ pc[p] \in ItemPhases
                    /\ c.name = label_item(p).label_code_name
              /\ \A l \in language_label' \ language_label :
                    /\ pc[p] \in ItemPhases
                    /\ l.label_text = label_item(p).label_text
                    /\ l.label_id = label_code[p]

\* C9: when the preconditions pass, the result list has one entry per input
\* item, entry i describes item i, and the reads and writes of item i come
\* before those of item i+1.
C9_InputOrder ==
    /\ [](\A p \in Procs : InOrder(p))
    /\ [][\A p \in Procs : OneItemAtATime(p)]_vars

C9_Witness ==
    /\ Passed(1)
    /\ Len(req[1].labels) = 2
    /\ req[1].labels[1].label_code_name # req[1].labels[2].label_code_name
    /\ response[1].results[1].label_code_name = req[1].labels[1].label_code_name
    /\ response[1].results[2].label_code_name = req[1].labels[2].label_code_name
    /\ response[1].results[1].action = "inserted"
    /\ response[1].results[2].action = "skipped"

\* C10: in every response, a rejection included, success is
\* failed_insertions = 0; skipped items do not make it false.
C10_SuccessFlag ==
    \A p \in Procs :
        pc[p] = "done" => (response[p].success <=> response[p].failed_insertions = 0)

C10_Witness ==
    /\ pc[1] = "done"
    /\ response[1].skipped_labels = 2
    /\ response[1].failed_insertions = 0
    /\ response[1].success

\* ------------------------------------------------------------ validate
\* validate_label_data has returned a verdict to the call of p
Judged(p) == verdict[p].message # "none"

\* the four facts of the candidate of p in the tables as they were when the
\* call started
LanguageFact(p) == cand[p].language_id \in languages
GroupFact(p) == cand[p].label_group_id \in label_groups
CodeFact(p) ==
    \E c \in snap[p].codes :
        c.id = cand[p].label_code_id /\ c.label_group_id = cand[p].label_group_id
TranslationFact(p) ==
    \E l \in snap[p].labels :
        l.language_id = cand[p].language_id /\ l.label_id = cand[p].label_code_id

\* C11: validate returns valid = language_exists AND label_group_exists AND
\* label_code_exists AND NOT translation_exists over the store of the call
\* (no storage error in the call): a candidate whose language, group and code
\* exist consistently and that has no translation is valid; a candidate of a
\* nonexistent language has language_exists false and valid false, whatever
\* its other fields.
C11_ValidVerdict ==
    \A p \in Procs :
        Judged(p) =>
            /\ log[p].fault = {} =>
                  /\ verdict[p].language_exists = LanguageFact(p)
                  /\ verdict[p].label_group_exists = GroupFact(p)
                  /\ verdict[p].label_code_exists = CodeFact(p)
                  /\ verdict[p].valid = (/\ LanguageFact(p) /\ GroupFact(p)
                                         /\ CodeFact(p) /\ ~TranslationFact(p))
            /\ ~LanguageFact(p) => ~verdict[p].language_exists /\ ~verdict[p].valid

C11_Witness ==
    /\ pc[1] = "returned"
    /\ op[1] = "validate"
    /\ log[1].fault = {}
    /\ LanguageFact(1) /\ GroupFact(1) /\ CodeFact(1) /\ ~TranslationFact(1)
    /\ verdict[1].valid
    /\ outcome[1].success

\* C12: label_code_exists is true only if a label code with the given id
\* exists in the supplied group; a code that exists in another group gives
\* label_code_exists false and valid false.
C12_CodeInGroup ==
    \A p \in Procs :
        Judged(p) =>
            /\ verdict[p].label_code_exists => CodeFact(p)
            /\ (\E c \in snap[p].codes :
                   c.id = cand[p].label_code_id /\ c.label_group_id # cand[p].label_group_id)
               => ~verdict[p].label_code_exists /\ ~verdict[p].valid

C12_Witness ==
    /\ pc[1] = "returned"
    /\ log[1].fault = {}
    /\ cand[1].label_code_id = 1 /\ cand[1].label_group_id = 1
    /\ \E c \in snap[1].codes : c.id = 1 /\ c.label_group_id = 2
    /\ LanguageFact(1) /\ ~TranslationFact(1)
    /\ verdict[1].language_exists /\ verdict[1].label_group_exists
    /\ ~verdict[1].label_code_exists
    /\ ~verdict[1].valid

\* C13: the message names the first failing condition in the order language,
\* group, code, duplicate (no storage error in the call), and the passed
\* message appears exactly when valid is true.
C13_MessagePriority ==
    \A p \in Procs :
        Judged(p) =>
            /\ log[p].fault = {} =>
                  verdict[p].message =
                      IF ~LanguageFact(p) THEN "language_does_not_exist"
                      ELSE IF ~GroupFact(p) THEN "label_group_does_not_exist"
                      ELSE IF ~CodeFact(p) THEN "label_code_does_not_exist_or_not_in_group"
                      ELSE IF TranslationFact(p) THEN "translation_already_exists"
                      ELSE "all_validation_checks_passed"
            /\ verdict[p].message = "all_validation_checks_passed" <=> verdict[p].valid

C13_Witness ==
    /\ pc[1] = "returned"
    /\ log[1].fault = {}
    /\ ~LanguageFact(1) /\ ~GroupFact(1) /\ ~CodeFact(1)
    /\ verdict[1].message = "language_does_not_exist"

\* what a reader of the verdict v learns about the translation of the key
TranslationTold(v) ==
    IF v.valid THEN "absent"
    ELSE IF v.message = "translation_already_exists" THEN "exists"
    ELSE "untold"

\* C14: for every candidate, also one whose language, group or code is
\* missing, the verdict tells whether a LanguageLabel exists for
\* (language_id, label_code_id) (no storage error in the call).
C14_TranslationFact ==
    \A p \in Procs :
        (Judged(p) /\ log[p].fault = {}) =>
            TranslationTold(verdict[p]) = IF TranslationFact(p) THEN "exists" ELSE "absent"

\* C15: validate returns a verdict for every candidate and every store, also
\* when the store raises an error; a missing language, group or code is a
\* false fact of the verdict; and no step of validate changes a table.
C15_PureQuery ==
    /\ [](\A p \in Procs :
            (pc[p] = "returned" /\ op[p] = "validate") =>
                /\ Judged(p)
                /\ outcome[p].step = "validate"
                /\ outcome[p].message = verdict[p].message
                /\ ~LanguageFact(p) => ~verdict[p].language_exists
                /\ ~GroupFact(p) => ~verdict[p].label_group_exists
                /\ ~CodeFact(p) => ~verdict[p].label_code_exists
                /\ label_codes = snap[p].codes /\ language_label = snap[p].labels)
    /\ [][\A p \in Procs :
            (pc[p] \in {"v_language", "v_group", "v_code", "v_translation"} /\ pc'[p] # pc[p])
            => UNCHANGED store]_vars

C15_Witness ==
    /\ pc[1] = "returned"
    /\ op[1] = "validate"
    /\ log[1].fault # {}
    /\ LanguageFact(1) /\ ~GroupFact(1)
    /\ verdict[1].message = "validation_error"
    /\ outcome[1].step = "validate"
    /\ language_label = snap[1].labels

\* --------------------------------------------- insert_label_with_validation
\* the call of p is a single insert that has returned with the given step
Ended(p, step) ==
    /\ pc[p] = "returned"
    /\ op[p] = "insert_with_validation"
    /\ outcome[p].step = step

\* the request of p, as the row it asks for
Requested(p, row) ==
    /\ row.language_id = cand[p].language_id
    /\ row.label_id = cand[p].label_code_id
    /\ row.label_text = cand[p].label_text

\* a step of the single insert of p either writes nothing or is the commit
\* that adds one row, the requested one, and changes no other row
InsertFootprint(p) ==
    (op[p] = "insert_with_validation" /\ pc'[p] # pc[p]) =>
        /\ UNCHANGED <<languages, label_groups, label_codes, code_seq>>
        /\ \/ UNCHANGED <<language_label, label_seq, created>>
           \/ /\ pc[p] = "ins_commit"
              /\ created[p] = {}
              /\ verdict[p].valid
              /\ \E row \in language_label' \ language_label :
                    /\ Requested(p, row)
                    /\ language_label' = language_label \cup {row}
                    /\ created'[p] = {row}

\* C16: a single insert that reports success has created exactly one
\* LanguageLabel row, with the requested language, label code and text, and
\* changed nothing else; one that is rejected, at validation or at insertion,
\* has created no row and changed nothing, and a rejection at validation comes
\* before any write is attempted.
C16_RowAccounting ==
    /\ [](\A p \in Procs :
            /\ (Ended(p, "complete") \/ (pc[p] = "returned" /\ outcome[p].success
                                         /\ op[p] = "insert_with_validation"))
               => /\ Cardinality(created[p]) = 1
                  /\ \A row \in created[p] : Requested(p, row)
                  /\ outcome[p].success
            /\ (Ended(p, "validation") \/ Ended(p, "insertion"))
               => created[p] = {} /\ ~outcome[p].success
            /\ Ended(p, "validation")
               => \A i \in 1..Len(trail[p]) :
                     trail[p][i] \notin {"ins_select", "ins_commit", "ins_refresh"})
    /\ [][\A p \in Procs : InsertFootprint(p)]_vars

C16_Witness ==
    /\ Ended(1, "complete")
    /\ Ended(2, "insertion")
    /\ Cardinality(created[1]) = 1
    /\ created[2] = {}
    /\ verdict[2].valid

DuplicateReasons ==
    {"translation_already_exists", "translation_already_exists_or_invalid_data"}

\* C17: when two single inserts for one key both pass validation and both
\* insert, exactly one creates the row and reports success; the other is
\* returned to its caller as a rejection at insertion with a
\* duplicate-translation reason, not as an error, and the stored text is the
\* winner's.
C17_RaceAtWrite ==
    \A p, q \in Procs :
        (/\ p # q
         /\ pc[p] = "returned" /\ op[p] = "insert_with_validation" /\ verdict[p].valid
         /\ pc[q] = "returned" /\ op[q] = "insert_with_validation" /\ verdict[q].valid
         /\ cand[p].language_id = cand[q].language_id
         /\ cand[p].label_code_id = cand[q].label_code_id)
        => \E w \in {p, q} :
              LET l == CHOOSE x \in {p, q} : x # w
              IN  /\ outcome[w].step = "complete" /\ outcome[w].success
                  /\ Cardinality(created[w]) = 1
                  /\ outcome[l].step = "insertion" /\ ~outcome[l].success
                  /\ outcome[l].message \in DuplicateReasons
                  /\ created[l] = {}
                  /\ language_label \ snap[w].labels = created[w]
                  /\ GetLanguageLabel(cand[w].language_id, cand[w].label_code_id).label_text
                        = cand[w].label_text

C17_Witness ==
    /\ Ended(2, "complete")
    /\ Ended(1, "insertion")
    /\ verdict[1].valid
    /\ outcome[1].message = "translation_already_exists_or_invalid_data"
    /\ cand[1].label_text # cand[2].label_text
    /\ GetLanguageLabel(1, 2).label_text = cand[2].label_text

\* C18: whenever a single insert reports step complete, the row it re-read by
\* (language_id, label_code_id) exists and has the requested language, label
\* code and text, also when another operation updates or deletes the
\* translation between the insert and the re-read.
C18_VerifiedMatch ==
    \A p \in Procs :
        Ended(p, "complete") =>
            /\ outcome[p].verification_result # NoRow
            /\ Requested(p, outcome[p].verification_result)

\* C19: in every reachable state there is at most one LanguageLabel row per
\* (language_id, label_id).
C19_OneTranslationPerKey ==
    \A k, l \in language_label :
        (k.language_id = l.language_id /\ k.label_id = l.label_id) => k = l

C19_Witness ==
    /\ pc[1] = "returned" /\ op[1] = "create"
    /\ outcome[1].step = "bad_request"
    /\ outcome[1].message = "translation_already_exists_or_invalid_data"
    /\ pc[2] = "done"
    /\ response[2].results[1].action = "inserted"
    /\ Cardinality(LabelByKey(1, 2)) = 1

\* C20: when another writer has committed a translation for the key between
\* the existence check of a bulk item and its insert, with allow_updates
\* false the item ends skipped: skipped_labels grows by one,
\* failed_insertions stays, and the failure does not turn success false.
C20_ConflictSkipped ==
    [][\A p \in Procs :
          (/\ pc[p] \in {"create_select", "create_commit"}
           /\ ~req[p].allow_updates
           /\ LabelByKey(req[p].language_id, label_code[p]) # {}
           /\ pc'[p] # pc[p])
          => /\ results'[p][idx[p]].action = "skipped"
             /\ counters'[p] = [counters[p] EXCEPT !.skipped_labels = @ + 1]
             /\ pc'[p] = "done" => response'[p].success]_vars

\* the items of rs whose action is one of actions
RECURSIVE CountActions(_, _)
CountActions(rs, actions) ==
    IF rs = <<>> THEN 0
    ELSE (IF Head(rs).action \in actions THEN 1 ELSE 0) + CountActions(Tail(rs), actions)

CounterSum(cnt) ==
    cnt.successful_insertions + cnt.successful_updates + cnt.failed_insertions
        + cnt.skipped_labels

\* C28: in every response of bulk_insert_labels the four counters add up to
\* total_labels, which is the length of the labels list; when the language
\* and the group exist each item is counted in exactly one counter, the one
\* of its result's action, and the response carries one result per item.
\* While the loop runs the counters add up to the number of results so far.
C28_CountersAddUp ==
    \A p \in Procs :
        /\ pc[p] \notin {"idle", "done"} /\ op[p] = "none"
           => /\ CounterSum(counters[p]) = Len(results[p])
              /\ Len(results[p]) <= Len(req[p].labels)
        /\ pc[p] = "done"
           => LET r == response[p]
              IN  /\ r.total_labels = Len(req[p].labels)
                  /\ CounterSum(r) = r.total_labels
                  /\ Passed(p)
                     => /\ Len(r.results) = r.total_labels
                        /\ r.successful_insertions = CountActions(r.results, {"inserted"})
                        /\ r.successful_updates = CountActions(r.results, {"updated"})
                        /\ r.skipped_labels = CountActions(r.results, {"skipped"})
                        /\ r.failed_insertions =
                              CountActions(r.results, {"failed", "failed_update"})

C28_Witness ==
    /\ pc[1] = "done"
    /\ Passed(1)
    /\ Len(req[1].labels) = MaxBatch
    /\ response[1].failed_insertions = 1
    /\ response[1].results[1].action = "failed_update"
    /\ response[1].skipped_labels + response[1].successful_insertions
          + response[1].successful_updates = MaxBatch - 1

\* C29: the response's message takes the failure form, "Failed to process
\* any labels", only when failed_insertions > 0; a response with success
\* true never carries it.
C29_FailureMessage ==
    \A p \in Procs :
        (pc[p] = "done" /\ response[p].message = "failed_to_process_any")
            => response[p].failed_insertions > 0 /\ ~response[p].success

\* the items of the call of p that name the code called name
ItemsOf(p, name) ==
    {i \in 1..Len(req[p].labels) : req[p].labels[i].label_code_name = name}

\* C30: an item reported failed or failed_update has written no translation:
\* a key of a returned batch whose items all ended that way holds the text it
\* held when the call started, whether the storage error came at the commit
\* or at the refresh.
C30_FailedWritesNothing ==
    \A p \in Procs :
        Passed(p) =>
            \A name \in Names :
                (/\ ItemsOf(p, name) # {}
                 /\ \A i \in ItemsOf(p, name) :
                       response[p].results[i].action \in {"failed", "failed_update"})
                => NowText(p, name) = StartText(p, name)

\* the phase of insert_label_with_validation an entry of trail belongs to:
\* 1 validating, 2 inserting, 3 verifying, 4 returned
PhaseOf(entry) ==
    IF entry \in {"v_language", "v_group", "v_code", "v_translation"} THEN 1
    ELSE IF entry \in {"ins_select", "ins_commit", "ins_refresh"} THEN 2
    ELSE IF entry = "verify" THEN 3
    ELSE 4

CompleteRun ==
    <<"v_language", "v_group", "v_code", "v_translation", "ins_select", "ins_commit",
      "ins_refresh", "verify", "complete">>

\* C25: a run of insert_label_with_validation goes through validating,
\* inserting, verifying and the return in that order, no await of it taken
\* twice and no phase skipped: the insert is entered only from the last select
\* of the validation and with a valid verdict, the verifying re-read only from
\* the refresh of the row the run created, a run reported complete has taken
\* every await of the three phases, and a rejected run ends at its rejection:
\* nothing of a later phase is in its trail and it takes no further step.
C25_PhaseOrder ==
    /\ [](\A p \in Procs :
            (op[p] = "insert_with_validation") =>
                LET t == trail[p]
                    n == Len(t)
                IN  /\ t[1] = "v_language"
                    /\ \A i, j \in 1..n : t[i] = t[j] => i = j
                    /\ \A i \in 1..(n - 1) :
                          /\ PhaseOf(t[i]) # 4
                          /\ PhaseOf(t[i + 1]) >= PhaseOf(t[i])
                          /\ PhaseOf(t[i + 1]) = 2 /\ PhaseOf(t[i]) # 2
                             => t[i] = "v_translation" /\ verdict[p].valid
                          /\ PhaseOf(t[i + 1]) = 3
                             => t[i] = "ins_refresh" /\ Cardinality(created[p]) = 1
                          /\ t[i + 1] = "complete" => t[i] = "verify"
                          /\ t[i + 1] = "validation" => PhaseOf(t[i]) = 1
                          /\ t[i + 1] = "insertion" => PhaseOf(t[i]) = 2
                    /\ (pc[p] = "returned") = (PhaseOf(t[n]) = 4)
                    /\ Ended(p, "complete") => t = CompleteRun
                    /\ Ended(p, "validation") => ~verdict[p].valid
                    /\ Ended(p, "insertion") => verdict[p].valid /\ created[p] = {})
    /\ [][\A p \in Procs : pc[p] = "returned" => UNCHANGED <<pc[p], trail[p], outcome[p]>>]_vars

C25_Witness ==
    /\ Ended(1, "complete") /\ trail[1] = CompleteRun
    /\ Ended(2, "insertion")
    /\ trail[2] = <<"v_language", "v_group", "v_code", "v_translation", "ins_select",
                    "insertion">>

\* the translations of language 1 for the code menu_home of group 1
HomeRows(codes, labels) ==
    {l \in labels : /\ l.language_id = 1
                    /\ \E c \in codes : /\ c.id = l.label_id
                                        /\ c.name = "menu_home"
                                        /\ c.label_group_id = 1}

\* the items of the call of p whose result reports a write
Writes(p) ==
    {i \in 1..Len(results[p]) : results[p][i].action \in {"inserted", "updated"}}

Last(S) == CHOOSE i \in S : \A j \in S : j <= i

\* a step changes the translation of the key only by the insert of the item
\* at a commit, into a key that has no row, or by the update of an item of a
\* batch with allow_updates, and the text after the step is that item's
KeyWrite(p) ==
    LET before == HomeRows(label_codes, language_label)
        after == HomeRows(label_codes', language_label')
    IN  (pc'[p] # pc[p] /\ after # before) =>
            \/ /\ pc[p] = "create_commit"
               /\ before = {}
               /\ Cardinality(after) = 1
               /\ \A l \in after : l.label_text = label_item(p).label_text
            \/ /\ pc[p] = "update_commit"
               /\ req[p].allow_updates
               /\ Cardinality(before) = 1
               /\ after = {[l EXCEPT !.label_text = label_item(p).label_text] : l \in before}

\* C21: writes of batches to one key.  An insert lands only on a key without
\* a row, so of the inserts of one batch or of two concurrent batches one is
\* stored and every later one is skipped or failed and leaves the text; an
\* update sets the text to its own, so the stored text is that of the write
\* committed last.  When all batches have returned the text is that of the
\* last writing item of one of them, or the text at the start when no item
\* wrote; a batch that ran alone with allow_updates leaves the text of its
\* last item, and one without leaves the text at its start or, when there was
\* none, that of its first item.
C21_KeyWrites ==
    /\ [](\A p, q \in Procs :
            (p # q /\ pc[p] = "done" /\ pc[q] \in {"idle", "done"}) =>
                LET n == Len(req[p].labels)
                    alone == pc[q] = "idle"
                    now == NowText(p, "menu_home")
                    inserted == {<<r, i>> \in Procs \X (1..MaxBatch) :
                                    /\ i \in Writes(r)
                                    /\ results[r][i].action = "inserted"}
                IN  /\ Cardinality(inserted) <= 1
                    /\ Cardinality(HomeRows(label_codes, language_label)) <= 1
                    /\ (Writes(p) = {} /\ Writes(q) = {}) => now = StartText(p, "menu_home")
                    /\ (Writes(p) # {} \/ Writes(q) # {}) =>
                          \E r \in {p, q} :
                              /\ Writes(r) # {}
                              /\ now = req[r].labels[Last(Writes(r))].label_text
                    /\ (alone /\ req[p].allow_updates) => now = req[p].labels[n].label_text
                    /\ (alone /\ ~req[p].allow_updates) =>
                          now = IF StartText(p, "menu_home") # NoText
                                  THEN StartText(p, "menu_home")
                                  ELSE req[p].labels[1].label_text)
    /\ [][\A p \in Procs : KeyWrite(p)]_vars

C21_Witness ==
    /\ pc[1] = "done" /\ pc[2] = "done"
    /\ req[1].allow_updates /\ req[2].allow_updates
    /\ Len(req[1].labels) = 2 /\ Len(req[2].labels) = 2
    /\ results[1][1].action = "inserted"
    /\ results[2][1].action = "failed"
    /\ results[2][2].action = "updated"
    /\ results[1][2].action = "updated"
    /\ req[1].labels[2].label_text # req[2].labels[2].label_text
    /\ NowText(1, "menu_home") = req[1].labels[2].label_text

\* C27: in every reachable state every translation references an existing
\* language and an existing label code, and every label code with a
\* label_group_id references an existing label group; the delete of a label
\* group whose codes are all loaded leaves them with no group, and a
\* translation is committed only for a language and a code that exist.
C27_ReferentialIntegrity ==
    /\ [](/\ \A l \in language_label :
                /\ l.language_id \in languages
                /\ \E c \in label_codes : c.id = l.label_id
          /\ \A c \in label_codes :
                c.label_group_id # NoId => c.label_group_id \in label_groups
          /\ active \subseteq languages)
    /\ [][\A p \in Procs :
            /\ (pc[p] = "dg_commit" /\ pc'[p] # pc[p] /\ outcome'[p].success)
               => /\ cand[p].label_group_id \notin label_groups'
                  /\ \A c \in label_codes : c.label_group_id = cand[p].label_group_id
                        => [c EXCEPT !.label_group_id = NoId] \in label_codes'
                  /\ Cardinality(label_codes') = Cardinality(label_codes)
            /\ (pc[p] \in {"ins_commit", "create_commit"} /\ pc'[p] # pc[p]
                /\ language_label' # language_label)
               => \A l \in language_label' \ language_label :
                     /\ l.language_id \in languages
                     /\ \E c \in label_codes : c.id = l.label_id]_vars

C27_Witness ==
    /\ pc[1] = "returned" /\ op[1] = "delete_label_group" /\ outcome[1].success
    /\ label_groups = {2}
    /\ \E c \in label_codes : c.label_group_id = NoId
    /\ pc[2] = "returned" /\ op[2] = "create"
    /\ cand[2].language_id = 3
    /\ outcome[2].step = "bad_request"

\* C22: every translation that insert_label_with_validation or
\* bulk_insert_labels creates references, when it is committed, a label code
\* whose label_group_id is the label_group_id of the request.
C22_GroupOfWrittenCode ==
    [][\A p \in Procs :
          (pc'[p] # pc[p] /\ op[p] \in {"none", "insert_with_validation"}) =>
              \A l \in {x \in language_label' : LabelById(x.id) = {}} :
                  \E c \in label_codes :
                      /\ c.id = l.label_id
                      /\ c.label_group_id =
                            IF op[p] = "none" THEN req[p].label_group_id
                            ELSE cand[p].label_group_id]_vars

\* the step of p is one of the handler named
StepOf(p, handler) == op[p] = handler /\ pc[p] # "returned" /\ pc'[p] # pc[p]

\* C23: delete_language on an existing language sets active to false and
\* changes nothing else: no row of languages is removed and no translation,
\* label code or label group changes; on an unknown id it returns false and
\* changes nothing.  A language that is not active still exists for
\* validate_label_data, which reports language_exists true, and for
\* bulk_insert_labels, which goes on to its next precondition.
C23_SoftDelete ==
    /\ [](languages = {1, 2} /\ active \subseteq languages)
    /\ [][\A p \in Procs :
            /\ StepOf(p, "delete_language")
               => /\ UNCHANGED <<store, children, app>>
                  /\ \/ /\ cand[p].language_id \in languages
                        /\ \/ pc'[p] = "dl_commit" /\ active' = active
                           \/ /\ pc'[p] = "returned"
                              /\ outcome'[p].success
                              /\ active' = active \ {cand[p].language_id}
                     \/ /\ cand[p].language_id \notin languages
                        /\ pc'[p] = "returned"
                        /\ ~outcome'[p].success
                        /\ active' = active
            /\ (pc[p] = "v_language" /\ pc'[p] = "v_group"
                /\ cand[p].language_id \in languages \ active)
               => facts'[p].language_exists
            /\ (pc[p] = "select_language" /\ pc'[p] # pc[p]
                /\ req[p].language_id \in languages \ active)
               => pc'[p] = "select_group"]_vars

C23_Witness ==
    /\ pc[1] = "returned" /\ op[1] = "delete_language" /\ outcome[1].success
    /\ 1 \notin active /\ 1 \in languages
    /\ LabelByKey(1, 1) # {}
    /\ pc[2] = "returned" /\ op[2] = "validate" /\ cand[2].language_id = 1
    /\ verdict[2].language_exists

\* C24: delete_language_label on an existing translation removes that row
\* and no other, returns true and leaves languages, label groups and label
\* codes as they were; on a key with no translation it returns false and
\* changes nothing.  For a key without a translation validate_label_data
\* reports no translation and create_language_label stores the row.
C24_HardDelete ==
    [][\A p \in Procs :
          LET key == LabelByKey(cand[p].language_id, cand[p].label_code_id)
          IN  /\ StepOf(p, "delete")
                 => /\ UNCHANGED <<languages, label_groups, label_codes, active>>
                    /\ (pc[p] = "del_select" /\ key = {})
                       => /\ pc'[p] = "returned" /\ ~outcome'[p].success
                          /\ language_label' = language_label
                    /\ (pc[p] = "del_select" /\ key # {})
                       => pc'[p] = "del_commit" /\ language_label' = language_label
                    /\ (pc[p] = "del_commit" /\ key # {})
                       => /\ language_label' = language_label \ key
                          /\ Cardinality(key) = 1
                          /\ LabelByKey(cand[p].language_id, cand[p].label_code_id)' = {}
                          /\ outcome'[p].success
              /\ (pc[p] = "v_translation" /\ pc'[p] # pc[p] /\ key = {}
                  /\ verdict'[p].message # "validation_error")
                 => ~facts'[p].translation_exists
              /\ (pc[p] = "ins_commit" /\ pc'[p] # pc[p] /\ key = {}
                  /\ cand[p].language_id \in languages
                  /\ \E c \in label_codes : c.id = cand[p].label_code_id)
                 => language_label' = language_label \cup
                       {LanguageLabelCreate(cand[p], label_seq)}]_vars

C24_Witness ==
    /\ pc[1] = "returned" /\ op[1] = "delete" /\ outcome[1].success
    /\ cand[1].language_id = 1 /\ cand[1].label_code_id = 2
    /\ LabelByKey(1, 2) \cap snap[1].labels = {}
    /\ \E l \in snap[1].labels : l.language_id = 1 /\ l.label_id = 2
    /\ Ended(2, "complete")
    /\ cand[2].language_id = 1 /\ cand[2].label_code_id = 2
    /\ created[2] = LabelByKey(1, 2)
    /\ created[2] # {}

\* C26: once the application serves, database_available is false exactly when
\* the creation of the tables failed at startup: then /health answers
\* degraded and disconnected and /submit-email is refused with 503; after a
\* startup that created the tables the flag is true and /health answers
\* healthy and connected.
C26_StartupFlag ==
    lifespan_at = "serving" =>
        /\ database_available = reachable
        /\ \A p \in Procs :
              /\ (pc[p] = "returned" /\ op[p] = "health")
                 => outcome[p].message = IF reachable THEN "healthy_connected"
                                         ELSE "degraded_disconnected"
              /\ (pc[p] = "returned" /\ op[p] = "submit_email" /\ ~reachable)
                 => outcome[p].step = "unavailable_503"

====
